---- MODULE Spec2Model ----
(***************************************************************************)
(* Transaction visualiser: the store of transactions held by App, the      *)
(* filter pipeline (amount range, pairwise-flow range, active accounts),   *)
(* the two-sided relationship tree built by TreeGraph, the day-bucketed    *)
(* flow bands and running balances built by TimeFlow, the flags, the      *)
(* paged table below the flow chart and the tooltip with its hide timers.  *)
(*                                                                         *)
(* Strings are sequences of character codes, so that sorting and joining   *)
(* of account ids is computed as the code computes it.  `undefined' and    *)
(* the empty string are both the empty sequence (both are falsy).          *)
(***************************************************************************)
EXTENDS Integers, Sequences, FiniteSets, TLC

VARIABLES transactions, filters, page, visualization, activeAccounts,
          maxDepth, maxChildrenPerNode, treeData, timeFlow, selectedFlow,
          xDomain, tooltip, tooltipTimeoutRef, timers

vars == <<transactions, filters, page, visualization, activeAccounts,
          maxDepth, maxChildrenPerNode, treeData, timeFlow, selectedFlow,
          xDomain, tooltip, tooltipTimeoutRef, timers>>

\* the tooltip of App, the timer its ref points to, and the timers of the
\* window: timers[id] is "pending", "cleared" or "fired"
tooltipVars == <<tooltip, tooltipTimeoutRef, timers>>

\* ---------------------------------------------------------------- bounds
\* longest transaction list drawn for the store
MaxTx == 3
\* amounts are drawn from 1..MaxAmount
MaxAmount == 2
\* the tree configuration is drawn from 1..MaxCfgDepth x 1..MaxCfgChildren
MaxCfgDepth == 3
MaxCfgChildren == 2
\* longest store drawn over the account ids that contain a separator
MaxPairTx == 2
\* valid dates are the days 1..MaxDay
MaxDay == 2
\* longest store drawn where flags are toggled
MaxFlagTx == 2
\* longest store drawn where the table is paged: one more than a page
MaxPageTx == 11
\* most hide timers started in one behaviour
MaxTimers == 4

\* ------------------------------------------------------------- constants
\* config.treeGraph as shipped
DefaultMaxDepth == 8
DefaultMaxChildrenPerNode == 12
PAGE_SIZE == 10
\* character code of the "|" that joins the two ids of a pair key
PipeChar == 124
\* character code of the "-" that joins the parts of a band key
DashChar == 45
\* a date string that the format %Y-%m-%d rejects
InvalidDate == 0
\* tooltipTimeoutRef.current = null; the ids of window.setTimeout are positive
NoTimer == 0

\* ------------------------------------------------------------ data model
\* account directory: ids "A", "B", "C" (character codes 65, 66, 67)
accounts == << <<65>>, <<66>>, <<67>> >>

AccountIds == { accounts[i] : i \in 1..Len(accounts) }

Undefined == <<>>

Amounts == 1..MaxAmount

\* the records of rawTransactionsData without their id: the id is the
\* position in the list ("tx-1", "tx-2", ...), so ids are unique.  A date
\* string "2024-07-0d" is the day number d, InvalidDate any other string.
RawTxOf(ids, amounts, dates) == [from : ids, to : ids, amount : amounts, date : dates]

\* transfers among the accounts of the directory, all on day 1
RawTx == RawTxOf(AccountIds, Amounts, {1})

RECURSIVE ListsUpTo(_, _)
ListsUpTo(S, n) ==
    IF n = 0 THEN { <<>> }
    ELSE LET shorter == ListsUpTo(S, n - 1)
         IN  shorter \cup { Append(l, x) : l \in { s \in shorter : Len(s) = n - 1 }, x \in S }

\* parseDate = d3.timeParse("%Y-%m-%d"): the Date (local midnight of the
\* day) as <<d>>, null as <<>>
parseDate(date) == IF date = InvalidDate THEN <<>> ELSE <<date>>

\* useState initialiser of transactions: every raw record gets parsedDate
\* (parseDate(tx.date) || undefined) and isFlagged (tx.isFlagged || false)
LoadTransactions(raw) ==
    [ i \in 1..Len(raw) |->
        [id |-> i, from |-> raw[i].from, to |-> raw[i].to,
         amount |-> raw[i].amount, date |-> raw[i].date,
         parsedDate |-> parseDate(raw[i].date), isFlagged |-> FALSE] ]

\* --------------------------------------------------------------- helpers
\* txs.reduce((sum, tx) => sum + tx.amount, 0)
RECURSIVE SumAmounts(_)
SumAmounts(s) == IF s = <<>> THEN 0 ELSE Head(s).amount + SumAmounts(Tail(s))

\* Array.prototype.slice(0, n)
SliceTo(s, n) == IF Len(s) <= n THEN s ELSE SubSeq(s, 1, n)

\* a || b on a number: 0 is falsy
OrElse(a, b) == IF a = 0 THEN b ELSE a

Min2(a, b) == IF a <= b THEN a ELSE b
Max2(a, b) == IF a >= b THEN a ELSE b

\* the elements of a list
Range(s) == { s[i] : i \in 1..Len(s) }

\* F(x) with x evaluated once (a const binding)
Once(x, F(_)) == CHOOSE r \in { F(v) : v \in {x} } : TRUE

\* position of the entry with this id in a list of {id, value, txCount}, 0 if none
RECURSIVE IndexOfId(_, _, _)
IndexOfId(entries, id, i) ==
    IF i > Len(entries) THEN 0
    ELSE IF entries[i].id = id THEN i
    ELSE IndexOfId(entries, id, i + 1)

\* ------------------------------------------------------------ TreeGraph
\* the counterparty a transaction contributes to, Undefined (null) if none
Counterparty(tx, direction, accountId) ==
    IF direction = "out" /\ tx.from = accountId THEN tx.to
    ELSE IF direction = "in" /\ tx.to = accountId THEN tx.from
    ELSE Undefined

\* aggregateEdges: a Map keeps its keys in insertion order, so the result
\* lists the counterparties in first-encountered order
RECURSIVE AggregateFrom(_, _, _, _)
AggregateFrom(txs, direction, accountId, map) ==
    IF txs = <<>> THEN map
    ELSE LET tx == Head(txs)
             counterparty == Counterparty(tx, direction, accountId)
             at == IndexOfId(map, counterparty, 1)
             next ==
                 IF counterparty = Undefined THEN map
                 ELSE IF at = 0
                      THEN Append(map, [id |-> counterparty, value |-> tx.amount, txCount |-> 1])
                      ELSE [map EXCEPT ![at].value = @ + tx.amount, ![at].txCount = @ + 1]
         IN  AggregateFrom(Tail(txs), direction, accountId, next)

aggregateEdges(txs, direction, accountId) ==
    AggregateFrom(txs, direction, accountId, <<>>)

\* a node that stores every transfer to it (from it, for "in"), whoever the parent
NodeTxsOfAnyParent(txs, accountId, direction, depth, parentId) ==
    IF direction = "out"
    THEN SelectSeq(txs, LAMBDA tx : IF parentId # Undefined THEN tx.to = accountId
                                    ELSE tx.from = accountId)
    ELSE SelectSeq(txs, LAMBDA tx : IF parentId # Undefined THEN tx.from = accountId
                                    ELSE tx.to = accountId)

\* a subtree root that leaves its own self-transfers out of its total
NodeTxsWithoutSelf(txs, accountId, direction, depth, parentId) ==
    IF parentId # Undefined
    THEN IF direction = "out"
         THEN SelectSeq(txs, LAMBDA tx : tx.from = parentId /\ tx.to = accountId)
         ELSE SelectSeq(txs, LAMBDA tx : tx.from = accountId /\ tx.to = parentId)
    ELSE IF direction = "out"
         THEN SelectSeq(txs, LAMBDA tx : tx.from = accountId /\ tx.to # accountId)
         ELSE SelectSeq(txs, LAMBDA tx : tx.to = accountId /\ tx.from # accountId)

\* the transactions a node stores (nodeTxs)
NodeTxs(txs, accountId, direction, depth, parentId) ==
    IF parentId # Undefined
    THEN IF direction = "out"
         THEN SelectSeq(txs, LAMBDA tx : tx.from = parentId /\ tx.to = accountId)
         ELSE SelectSeq(txs, LAMBDA tx : tx.from = accountId /\ tx.to = parentId)
    ELSE IF depth = 0
    THEN IF direction = "out"
         THEN SelectSeq(txs, LAMBDA tx : tx.from = accountId)
         ELSE SelectSeq(txs, LAMBDA tx : tx.to = accountId)
    ELSE <<>>

\* a builder that only limits the depth
IsPrunedByDepthOnly(accountId, visited, depth) == depth > maxDepth

\* a builder that only prevents cycles
IsPrunedByVisitedOnly(accountId, visited, depth) == accountId \in visited

\* visited.has(accountId) || depth > config.treeGraph.maxDepth
IsPruned(accountId, visited, depth) == accountId \in visited \/ depth > maxDepth

\* a builder that recurses into every counterparty
KeptAll(agg, limit) == agg

\* the children kept out of the aggregated counterparties
KeptCounterparties(agg, limit) == SliceTo(agg, limit)

\* the set handed to the recursive calls of one node
NewVisited(visited) == visited

\* the caller's Set after a call of buildDirectionalTree on it:
\* visited.add(accountId) writes to the Set object the caller passed in
VisitedAfter(accountId, visited, depth) ==
    IF IsPruned(accountId, visited, depth) THEN visited ELSE visited \cup {accountId}

\* buildDirectionalTree returns <<>> for null and <<node>> otherwise
RECURSIVE buildDirectionalTree(_, _, _, _, _, _)
RECURSIVE BuildChildren(_, _, _, _, _, _)

\* agg.map(a => buildDirectionalTree(..., newVisited, depth + 1, accountId))
\*    .filter(child => child !== null): one Set object serves all the calls
BuildChildren(txs, agg, direction, newVisited, depth, accountId) ==
    IF agg = <<>> THEN <<>>
    ELSE buildDirectionalTree(txs, Head(agg).id, direction, newVisited, depth + 1, accountId)
         \o Once(VisitedAfter(Head(agg).id, newVisited, depth + 1),
                 LAMBDA shared :
                     BuildChildren(txs, Tail(agg), direction, shared, depth, accountId))

NodeOf(txs, accountId, direction, visited, depth, parentId, nodeTxs, agg) ==
    IF agg = <<>> /\ parentId = Undefined THEN <<>>
    ELSE << [id |-> accountId,
             direction |-> direction,
             value |-> SumAmounts(nodeTxs),
             parentId |-> parentId,
             transactions |-> nodeTxs,
             children |->
                 BuildChildren(txs, KeptCounterparties(agg, maxChildrenPerNode),
                               direction, NewVisited(visited \cup {accountId}),
                               depth, accountId)] >>

buildDirectionalTree(txs, accountId, direction, visited, depth, parentId) ==
    IF IsPruned(accountId, visited, depth) THEN <<>>
    ELSE Once(NodeTxs(txs, accountId, direction, depth, parentId), LAMBDA nodeTxs :
         Once(aggregateEdges(txs, direction, accountId), LAMBDA agg :
              NodeOf(txs, accountId, direction, visited, depth, parentId, nodeTxs, agg)))

\* the name the directory holds for an account: "n" before the id, as
\* "Alice Smith - Personal" stands for "A1001"
DirectoryName(id) == <<110>> \o id

\* accounts.find((a) => a.id === accountId)?.name: undefined if no entry
FoundName(accountId) ==
    LET found == SelectSeq(accounts, LAMBDA a : a = accountId)
    IN  IF found = <<>> THEN Undefined ELSE DirectoryName(found[1])

\* a label without the fall-back to the id
NodeNameWithoutFallback(accountId) == FoundName(accountId)

\* accounts.find((a) => a.id === accountId)?.name || accountId, the name
\* of a tree node, of the synthetic root and of a lane
NodeName(accountId) ==
    IF FoundName(accountId) = Undefined THEN accountId ELSE FoundName(accountId)

buildFullTree(txs, accountId) ==
    LET outTree == buildDirectionalTree(txs, accountId, "out", {}, 0, Undefined)
        inTree == buildDirectionalTree(txs, accountId, "in", {}, 0, Undefined)
    IN  [id |-> accountId,
         direction |-> "root",
         value |-> 0,
         parentId |-> Undefined,
         transactions |-> SelectSeq(txs, LAMBDA tx : tx.from = accountId \/ tx.to = accountId),
         children |-> outTree \o inTree]

\* ------------------------------------------------------------------ App
\* strings compare by code units, as Array.prototype.sort does
RECURSIVE StrLess(_, _)
StrLess(a, b) ==
    IF b = <<>> THEN FALSE
    ELSE IF a = <<>> THEN TRUE
    ELSE IF Head(a) # Head(b) THEN Head(a) < Head(b)
    ELSE StrLess(Tail(a), Tail(b))

\* [tx.from, tx.to].sort().join("|")
PairKey(tx) ==
    IF StrLess(tx.to, tx.from)
    THEN tx.to \o <<PipeChar>> \o tx.from
    ELSE tx.from \o <<PipeChar>> \o tx.to

\* pairFlows.get(key) || 0 for the Map built over all stored transactions
\* (Math.abs is the identity on the positive amounts of the store)
pairFlows(key) ==
    SumAmounts(SelectSeq(transactions, LAMBDA tx : PairKey(tx) = key))

\* a filter whose amount range excludes its end points
PassesFiltersExclusive(tx) ==
    /\ ~ (filters.amountRange # Undefined
          /\ (tx.amount <= filters.amountRange[1] \/ tx.amount >= filters.amountRange[2]))
    /\ ~ (filters.flowRange # Undefined
          /\ (pairFlows(PairKey(tx)) < filters.flowRange[1]
              \/ pairFlows(PairKey(tx)) > filters.flowRange[2]))

\* the callback of transactions.filter in filteredTransactions
PassesFilters(tx) ==
    /\ ~ (filters.amountRange # Undefined
          /\ (tx.amount < filters.amountRange[1] \/ tx.amount > filters.amountRange[2]))
    /\ ~ (filters.flowRange # Undefined
          /\ (pairFlows(PairKey(tx)) < filters.flowRange[1]
              \/ pairFlows(PairKey(tx)) > filters.flowRange[2]))

filteredTransactions == SelectSeq(transactions, PassesFilters)

\* activeAccounts.includes(id)
Includes(list, x) == \E i \in 1..Len(list) : list[i] = x

\* the callback of filteredTransactions.filter for a list of active accounts
Touches(active, tx) == Includes(active, tx.from) \/ Includes(active, tx.to)

TouchesActive(tx) == Touches(activeAccounts, tx)

\* the account-focus stage applied to a list and a list of active accounts
AccountFocus(list, active) == SelectSeq(list, LAMBDA tx : Touches(active, tx))

activeFilteredTransactions == AccountFocus(filteredTransactions, activeAccounts)

\* [minAmount, maxAmount] of App: over all stored transactions
RECURSIVE MinAmountOf(_)
MinAmountOf(s) ==
    IF Len(s) = 1 THEN s[1].amount ELSE Min2(Head(s).amount, MinAmountOf(Tail(s)))

RECURSIVE MaxAmountOf(_)
MaxAmountOf(s) ==
    IF Len(s) = 1 THEN s[1].amount ELSE Max2(Head(s).amount, MaxAmountOf(Tail(s)))

minAmount == IF transactions = <<>> THEN 0 ELSE MinAmountOf(transactions)
maxAmount == IF transactions = <<>> THEN 10000 ELSE MaxAmountOf(transactions)

\* the minAmount / maxAmount props handed to TreeGraph
PropMinAmount ==
    IF filters.amountRange = Undefined THEN minAmount
    ELSE OrElse(filters.amountRange[1], minAmount)
PropMaxAmount ==
    IF filters.amountRange = Undefined THEN maxAmount
    ELSE OrElse(filters.amountRange[2], maxAmount)

\* a tree filter that drops the transactions whose date did not parse
TreeFilteredTxWithParsedDate ==
    SelectSeq(filteredTransactions,
              LAMBDA tx : /\ tx.amount >= PropMinAmount /\ tx.amount <= PropMaxAmount
                          /\ tx.parsedDate # Undefined)

\* filteredTx of the TreeGraph update effect
TreeFilteredTx ==
    SelectSeq(filteredTransactions,
              LAMBDA tx : tx.amount >= PropMinAmount /\ tx.amount <= PropMaxAmount)

\* the TreeGraph update effect; it runs when TreeGraph is mounted and one
\* of transactions, minAmount, maxAmount, activeAccount changed
TreeEffect ==
    IF visualization = "tree"
    THEN << Once(TreeFilteredTx, LAMBDA filteredTx : buildFullTree(filteredTx, activeAccounts[1])) >>
    ELSE <<>>

\* treeData.children[0], laid out to the right of the root and drawn with
\* ids "out-..." and direction "out"; <<>> if there is no such element
outgoingSide ==
    IF treeData # <<>> /\ Len(treeData[1].children) >= 1
    THEN << treeData[1].children[1] >> ELSE <<>>

\* treeData.children[1], laid out to the left of the root and drawn with
\* ids "in-..." and direction "in"; <<>> if there is no such element
incomingSide ==
    IF treeData # <<>> /\ Len(treeData[1].children) >= 2
    THEN << treeData[1].children[2] >> ELSE <<>>

\* the account ids of the rendered nodes (allNodes): a node and its descendants
RECURSIVE NodeIds(_)
NodeIds(nodes) ==
    IF nodes = <<>> THEN {}
    ELSE {Head(nodes).id} \cup NodeIds(Head(nodes).children) \cup NodeIds(Tail(nodes))

\* ------------------------------------------------------------- TimeFlow
\* d3.timeDay(tx.parsedDate).toISOString().split("T")[0]: "2024-07-0d"
\* (the offset of the local time zone moves every key by the same day)
DateKey(parsedDate) ==
    <<50, 48, 50, 52, DashChar, 48, 55, DashChar, 48, 48 + parsedDate[1]>>

\* a band key that leaves the day out
FlowKeyWithoutDay(tx) == tx.from \o <<DashChar>> \o tx.to

\* `${tx.from}-${tx.to}-${dateKey}`
FlowKey(tx) ==
    tx.from \o <<DashChar>> \o tx.to \o <<DashChar>> \o DateKey(tx.parsedDate)

\* filteredTx of the TimeFlow update effect
TimeFilteredTx ==
    SelectSeq(filteredTransactions,
              LAMBDA tx : /\ tx.amount >= PropMinAmount /\ tx.amount <= PropMaxAmount
                          /\ tx.parsedDate # Undefined)

\* accountVolumes.set(id, (accountVolumes.get(id) || 0) + amount)
AddVolume(map, id, amount) ==
    LET at == IndexOfId(map, id, 1)
    IN  IF at = 0 THEN Append(map, [id |-> id, value |-> amount])
        ELSE [map EXCEPT ![at].value = @ + amount]

\* accountVolumes: what each account sent plus what it received
RECURSIVE VolumesFrom(_, _)
VolumesFrom(txs, map) ==
    IF txs = <<>> THEN map
    ELSE Once(AddVolume(map, Head(txs).from, Head(txs).amount), LAMBDA withFrom :
         Once(AddVolume(withFrom, Head(txs).to, Head(txs).amount), LAMBDA withTo :
              VolumesFrom(Tail(txs), withTo)))

\* Array.prototype.sort is stable: an entry goes behind its equals
RECURSIVE InsertByVolume(_, _)
InsertByVolume(sorted, entry) ==
    IF sorted = <<>> THEN <<entry>>
    ELSE IF entry.value > Head(sorted).value THEN <<entry>> \o sorted
    ELSE <<Head(sorted)>> \o InsertByVolume(Tail(sorted), entry)

RECURSIVE SortByVolume(_, _)
SortByVolume(entries, sorted) ==
    IF entries = <<>> THEN sorted
    ELSE Once(InsertByVolume(sorted, Head(entries)), LAMBDA next :
              SortByVolume(Tail(entries), next))

\* a lane for every account of the directory, touched or not
directoryAccounts(filteredTx) == accounts

\* the account ids of accountVolumes, largest volume first
uniqueAccounts(filteredTx) ==
    Once(VolumesFrom(filteredTx, <<>>), LAMBDA accountVolumes :
    Once(SortByVolume(accountVolumes, <<>>), LAMBDA sorted :
         [ i \in 1..Len(sorted) |-> sorted[i].id ]))

\* one step of filteredTx.forEach over flowMap: the band of the key is
\* created (amount 0, no transactions) if the key is new, then the amount
\* is added and the transaction pushed
AddToFlowMap(map, tx) ==
    IF tx.parsedDate = Undefined THEN map
    ELSE Once(IndexOfId(map, FlowKey(tx), 1), LAMBDA at :
         IF at # 0
         THEN [map EXCEPT ![at].amount = @ + tx.amount,
                          ![at].transactions = Append(@, tx)]
         ELSE Append(map, [id |-> FlowKey(tx),
                           fromAccount |-> tx.from,
                           toAccount |-> tx.to,
                           date |-> tx.parsedDate[1],
                           amount |-> 0 + tx.amount,
                           transactions |-> <<tx>>]))

\* flowMap: one band per key, in the order the keys were first seen
RECURSIVE FlowMapFrom(_, _)
FlowMapFrom(txs, map) ==
    IF txs = <<>> THEN map
    ELSE Once(AddToFlowMap(map, Head(txs)), LAMBDA next :
              FlowMapFrom(Tail(txs), next))

\* a sort that puts a band in front of the bands of its own day
RECURSIVE InsertByDateInFront(_, _)
InsertByDateInFront(sorted, flow) ==
    IF sorted = <<>> THEN <<flow>>
    ELSE IF flow.date <= Head(sorted).date THEN <<flow>> \o sorted
    ELSE <<Head(sorted)>> \o InsertByDateInFront(Tail(sorted), flow)

\* flows.sort((a, b) => a.date.getTime() - b.date.getTime()), stable: a
\* band goes behind the bands of its own day that are already placed
RECURSIVE InsertByDate(_, _)
InsertByDate(sorted, flow) ==
    IF sorted = <<>> THEN <<flow>>
    ELSE IF flow.date < Head(sorted).date THEN <<flow>> \o sorted
    ELSE <<Head(sorted)>> \o InsertByDate(Tail(sorted), flow)

RECURSIVE SortByDate(_, _)
SortByDate(flows, sorted) ==
    IF flows = <<>> THEN sorted
    ELSE Once(InsertByDate(sorted, Head(flows)), LAMBDA next :
              SortByDate(Tail(flows), next))

chronologicalFlows(flows) == SortByDate(flows, <<>>)

\* one step of chronologicalFlows.forEach: both balances are read, then
\* both are written, then both snapshots are read back from the Map
ApplyFlow(st, flow) ==
    LET fromBalance == st.currentBalances[flow.fromAccount]
        toBalance == st.currentBalances[flow.toAccount]
        afterFrom == [st.currentBalances EXCEPT ![flow.fromAccount] = fromBalance - flow.amount]
        afterTo == [afterFrom EXCEPT ![flow.toAccount] = toBalance + flow.amount]
        pushedFrom ==
            [st.accountBalances EXCEPT ![flow.fromAccount] =
                Append(@, [date |-> flow.date, balance |-> afterTo[flow.fromAccount],
                           inflow |-> 0, outflow |-> flow.amount])]
        pushedTo ==
            [pushedFrom EXCEPT ![flow.toAccount] =
                Append(@, [date |-> flow.date, balance |-> afterTo[flow.toAccount],
                           inflow |-> flow.amount, outflow |-> 0])]
    IN  [currentBalances |-> afterTo, accountBalances |-> pushedTo]

RECURSIVE ReplayFrom(_, _)
ReplayFrom(flows, st) ==
    IF flows = <<>> THEN st
    ELSE Once(ApplyFlow(st, Head(flows)), LAMBDA next : ReplayFrom(Tail(flows), next))

\* a replay that starts every account at balance 1
ReplayFromOne(flows, ids) ==
    ReplayFrom(flows, [currentBalances |-> [a \in Range(ids) |-> 1],
                       accountBalances |-> [a \in Range(ids) |-> <<>>]])

\* every account of uniqueAccounts starts at balance 0 with no sample
Replay(flows, ids) ==
    ReplayFrom(flows, [currentBalances |-> [a \in Range(ids) |-> 0],
                       accountBalances |-> [a \in Range(ids) |-> <<>>]])

\* an aggregate that is flagged when none of its constituents is unflagged
NoneUnflagged(txs) == \A i \in 1..Len(txs) : txs[i].isFlagged

\* flow.transactions.some(tx => tx.isFlagged),
\* d.data.transactions.some(tx => tx.isFlagged)
SomeFlagged(txs) == \E i \in 1..Len(txs) : txs[i].isFlagged

\* what one run of the TimeFlow update effect draws: the bands in
\* chronological order, each with its fill (flagged or not), and the
\* balance history of every account in the order of accountBalances
DrawTimeFlow(filteredTx) ==
    IF filteredTx = <<>> THEN [flows |-> <<>>, accountBalances |-> <<>>]
    ELSE Once(uniqueAccounts(filteredTx), LAMBDA ids :
         Once(FlowMapFrom(filteredTx, <<>>), LAMBDA flowMap :
         Once(chronologicalFlows(flowMap), LAMBDA flows :
         Once(Replay(flows, ids), LAMBDA st :
              [flows |-> [ i \in 1..Len(flows) |->
                            [id |-> flows[i].id,
                             fromAccount |-> flows[i].fromAccount,
                             toAccount |-> flows[i].toAccount,
                             date |-> flows[i].date,
                             amount |-> flows[i].amount,
                             transactions |-> flows[i].transactions,
                             isFlagged |-> SomeFlagged(flows[i].transactions)] ],
               accountBalances |-> [ i \in 1..Len(ids) |->
                            [id |-> ids[i], history |-> st.accountBalances[ids[i]]] ]]))))

\* the TimeFlow update effect; it runs when TimeFlow is mounted and one of
\* transactions, minAmount, maxAmount changed
TimeFlowEffect ==
    IF visualization = "timeflow"
    THEN << Once(TimeFilteredTx, LAMBDA filteredTx : DrawTimeFlow(filteredTx)) >>
    ELSE <<>>

\* the flagged property TreeGraph gives the value text of a node of either
\* subtree and the name text of the root, from the tree it has just built
TreeFlagged(node) == SomeFlagged(node.transactions)

\* ------------------------------------------------------------- actions
NoFilters == [amountRange |-> Undefined, flowRange |-> Undefined]

\* a DualRangeSlider reports [lo, hi] with lo <= hi
Ranges(lo, hi) == { <<a, b>> : a \in lo..hi, b \in lo..hi } \ { <<a, b>> \in (lo..hi) \X (lo..hi) : a > b }

\* Chart's visibleTransactions: the transactions it is handed whose date
\* lies in the x domain, [xStart, xEnd] of the zoom or, with no zoom, the
\* padded span of all dates; a date that did not parse compares false
VisibleTransactionsOf(txs, domain) ==
    SelectSeq(txs, LAMBDA t :
        /\ t.parsedDate # Undefined
        /\ domain # Undefined => domain[1] <= t.parsedDate[1] /\ t.parsedDate[1] <= domain[2])

\* the list the update effect of a mounted Chart reports through
\* onVisibleTransactionsChange
ChartEffect ==
    Once(activeFilteredTransactions, LAMBDA txs : VisibleTransactionsOf(txs, xDomain))

\* App's visibleTransactions, which only the table and the pagination of
\* the flow view read: there Chart is mounted and the state holds what its
\* update effect reported for the current props and zoom
visibleTransactions == ChartEffect

InitApp(raws, depths, fanouts) ==
    /\ \E raw \in raws : transactions = LoadTransactions(raw)
    /\ filters = NoFilters
    /\ page = 1
    /\ visualization = "flow"
    /\ activeAccounts = << accounts[1] >>
    /\ maxDepth \in depths
    /\ maxChildrenPerNode \in fanouts
    /\ treeData = <<>>
    /\ timeFlow = <<>>
    /\ selectedFlow = <<>>
    /\ xDomain = Undefined
    /\ tooltip = [visible |-> FALSE]
    /\ tooltipTimeoutRef = NoTimer
    /\ timers = <<>>

\* the update effect of the mounted view runs after every state change
\* that reaches its dependencies; an unmounted view has drawn nothing
RunEffects ==
    /\ treeData' = TreeEffect'
    /\ timeFlow' = TimeFlowEffect'

\* setVisualization(e.target.value): the view that is left is unmounted
\* and loses its component state
setVisualization(v) ==
    /\ visualization' = v
    /\ selectedFlow' = IF v = visualization THEN selectedFlow ELSE <<>>
    /\ xDomain' = IF v = visualization THEN xDomain ELSE Undefined
    /\ UNCHANGED <<transactions, filters, page, activeAccounts, maxDepth, maxChildrenPerNode>>
    /\ UNCHANGED tooltipVars
    /\ RunEffects

\* handleFilterChange(newFilters): setFilters(prev => ({...prev, ...newFilters})); setPage(1)
handleFilterChange(newFilters) ==
    /\ filters' = [k \in DOMAIN filters |->
                      IF k \in DOMAIN newFilters THEN newFilters[k] ELSE filters[k]]
    /\ page' = 1
    /\ UNCHANGED <<transactions, visualization, activeAccounts, maxDepth, maxChildrenPerNode,
                   xDomain, selectedFlow>>
    /\ UNCHANGED tooltipVars
    /\ RunEffects

\* handleActiveAccountChange(accountId), reached from the context menu that
\* TreeGraph opens on a rendered node (handleFocusAccount)
handleActiveAccountChange(accountId) ==
    /\ visualization = "tree"
    /\ accountId \in NodeIds(treeData)
    /\ activeAccounts' = << accountId >>
    /\ UNCHANGED <<transactions, filters, page, visualization, maxDepth, maxChildrenPerNode,
                   xDomain, selectedFlow>>
    /\ UNCHANGED tooltipVars
    /\ RunEffects

\* an updater that puts the new account in front: [id, ...prev]
onAddActiveAccountInFront(id) ==
    /\ visualization = "flow"
    /\ activeAccounts' = IF Includes(activeAccounts, id) THEN activeAccounts
                         ELSE <<id>> \o activeAccounts
    /\ UNCHANGED <<transactions, filters, page, visualization, maxDepth, maxChildrenPerNode,
                   xDomain, selectedFlow>>
    /\ UNCHANGED tooltipVars
    /\ RunEffects

\* onAddActiveAccount of Chart: prev.includes(id) ? prev : [...prev, id]
onAddActiveAccount(id) ==
    /\ visualization = "flow"
    /\ activeAccounts' = IF Includes(activeAccounts, id) THEN activeAccounts
                         ELSE Append(activeAccounts, id)
    /\ UNCHANGED <<transactions, filters, page, visualization, maxDepth, maxChildrenPerNode,
                   xDomain, selectedFlow>>
    /\ UNCHANGED tooltipVars
    /\ RunEffects

\* an updater that inverts the flag of every transaction
ToggleEveryFlag(txs, id) ==
    [ i \in 1..Len(txs) |-> [txs[i] EXCEPT !.isFlagged = ~ @] ]

\* the updater of handleToggleFlag applied to a list:
\* map(tx => tx.id === id ? { ...tx, isFlagged: !tx.isFlagged } : tx)
ToggleFlag(txs, id) ==
    [ i \in 1..Len(txs) |->
        IF txs[i].id = id THEN [txs[i] EXCEPT !.isFlagged = ~ @] ELSE txs[i] ]

\* the updater of onResetFlags: map(tx => ({ ...tx, isFlagged: false }))
ResetFlags(txs) == [ i \in 1..Len(txs) |-> [txs[i] EXCEPT !.isFlagged = FALSE] ]

\* the ids of a list of transactions
IdsOf(txs) == { txs[i].id : i \in 1..Len(txs) }

\* the transactions whose flag control is on screen: the arrows of Chart
\* (and the rows below it) in the flow view, the rows of the selected band
\* in the time-flow view; TreeGraph passes a no-op to its table
Toggleable ==
    IF visualization = "flow" THEN IdsOf(visibleTransactions)
    ELSE IF visualization = "timeflow" /\ selectedFlow # <<>>
         THEN IdsOf(selectedFlow[1].transactions)
    ELSE {}

\* a toggle after which the mounted view does not draw again
handleToggleFlagWithoutRedraw(id) ==
    /\ id \in Toggleable
    /\ transactions' = ToggleFlag(transactions, id)
    /\ UNCHANGED <<filters, page, visualization, activeAccounts, maxDepth, maxChildrenPerNode,
                   xDomain, selectedFlow, treeData, timeFlow>>
    /\ UNCHANGED tooltipVars

\* handleToggleFlag(id)
handleToggleFlag(id) ==
    /\ id \in Toggleable
    /\ transactions' = ToggleFlag(transactions, id)
    /\ UNCHANGED <<filters, page, visualization, activeAccounts, maxDepth, maxChildrenPerNode,
                   xDomain, selectedFlow>>
    /\ UNCHANGED tooltipVars
    /\ RunEffects

\* onResetFlags, the Reset Flags button of Chart
onResetFlags ==
    /\ visualization = "flow"
    /\ transactions' = ResetFlags(transactions)
    /\ UNCHANGED <<filters, page, visualization, activeAccounts, maxDepth, maxChildrenPerNode,
                   xDomain, selectedFlow>>
    /\ UNCHANGED tooltipVars
    /\ RunEffects

\* click on the i-th drawn band: setSelectedFlow keeps the band's
\* transactions, accounts, date and amount as they are at the click
selectFlow(i) ==
    /\ visualization = "timeflow"
    /\ i \in 1..Len(timeFlow[1].flows)
    /\ selectedFlow' = << [transactions |-> timeFlow[1].flows[i].transactions,
                           fromAccount |-> timeFlow[1].flows[i].fromAccount,
                           toAccount |-> timeFlow[1].flows[i].toAccount,
                           date |-> timeFlow[1].flows[i].date,
                           amount |-> timeFlow[1].flows[i].amount] >>
    /\ UNCHANGED <<transactions, filters, page, visualization, activeAccounts,
                   maxDepth, maxChildrenPerNode, xDomain>>
    /\ UNCHANGED tooltipVars
    /\ RunEffects

\* click on the background or on the close button: setSelectedFlow(null)
clearSelectedFlow ==
    /\ visualization = "timeflow"
    /\ selectedFlow # <<>>
    /\ selectedFlow' = <<>>
    /\ UNCHANGED <<transactions, filters, page, visualization, activeAccounts,
                   maxDepth, maxChildrenPerNode, xDomain>>
    /\ UNCHANGED tooltipVars
    /\ RunEffects

\* the band the detail panel shows: its heading reads the kept amount and
\* the kept number of transactions, its rows are the kept transactions
\* looked up in allTransactions by id
\* Math.ceil(visibleTransactions.length / PAGE_SIZE)
totalPages == (Len(visibleTransactions) + PAGE_SIZE - 1) \div PAGE_SIZE

\* handlePageChange(newPage) from the buttons of paginationControls:
\* Previous (page - 1) is disabled when page <= 1, Next (page + 1) when
\* page >= totalPages
handlePageChange(newPage) ==
    /\ visualization = "flow"
    /\ \/ newPage = page - 1 /\ ~ (page <= 1)
       \/ newPage = page + 1 /\ ~ (page >= totalPages)
    /\ page' = newPage
    /\ UNCHANGED <<transactions, filters, visualization, activeAccounts,
                   maxDepth, maxChildrenPerNode, xDomain, selectedFlow>>
    /\ UNCHANGED tooltipVars
    /\ RunEffects

\* the zoom handler of Chart: setXDomain(zx.domain())
setXDomain(domain) ==
    /\ visualization = "flow"
    /\ xDomain' = domain
    /\ UNCHANGED <<transactions, filters, page, visualization, activeAccounts,
                   maxDepth, maxChildrenPerNode, selectedFlow>>
    /\ UNCHANGED tooltipVars
    /\ RunEffects

\* everything but the tooltip
appVars == <<transactions, filters, page, visualization, activeAccounts,
             maxDepth, maxChildrenPerNode, treeData, timeFlow, selectedFlow,
             xDomain>>

\* clearTimeout(id): a pending timer is cancelled, any other id is ignored
clearTimeout(table, id) ==
    IF id \in 1..Len(table) /\ table[id] = "pending"
    THEN [table EXCEPT ![id] = "cleared"] ELSE table

\* handleShowTooltip, called by mouseenter on an arrow of Chart
handleShowTooltip ==
    /\ visualization = "flow" /\ visibleTransactions # <<>>
    /\ IF tooltipTimeoutRef # NoTimer
       THEN /\ timers' = clearTimeout(timers, tooltipTimeoutRef)
            /\ tooltipTimeoutRef' = NoTimer
       ELSE UNCHANGED <<timers, tooltipTimeoutRef>>
    /\ tooltip' = [visible |-> TRUE]
    /\ UNCHANGED appVars

\* handleHideTooltip, called by mouseleave on an arrow of Chart and by
\* mouseleave on the tooltip: a timer of 100 ms is started and the ref set
\* to its id
handleHideTooltip ==
    /\ Len(timers) < MaxTimers
    /\ timers' = Append(timers, "pending")
    /\ tooltipTimeoutRef' = Len(timers) + 1
    /\ UNCHANGED tooltip
    /\ UNCHANGED appVars

\* the callback of a hide timer; timers of one delay fire in the order in
\* which they were started
timerExpires(id) ==
    /\ id \in 1..Len(timers) /\ timers[id] = "pending"
    /\ \A other \in 1..(id - 1) : timers[other] # "pending"
    /\ timers' = [timers EXCEPT ![id] = "fired"]
    /\ tooltip' = [visible |-> FALSE]
    /\ UNCHANGED tooltipTimeoutRef
    /\ UNCHANGED appVars

\* onMouseEnter of the Tooltip, which is in the document while visible
tooltipMouseEnter ==
    /\ tooltip.visible
    /\ timers' = IF tooltipTimeoutRef # NoTimer
                 THEN clearTimeout(timers, tooltipTimeoutRef) ELSE timers
    /\ UNCHANGED <<tooltip, tooltipTimeoutRef>>
    /\ UNCHANGED appVars

SelectedFlowPanel ==
    IF selectedFlow = <<>> THEN <<>>
    ELSE << [fromAccount |-> selectedFlow[1].fromAccount,
             toAccount |-> selectedFlow[1].toAccount,
             date |-> selectedFlow[1].date,
             amount |-> selectedFlow[1].amount,
             transactions |->
                 [ i \in 1..Len(selectedFlow[1].transactions) |->
                     LET found == SelectSeq(transactions,
                                      LAMBDA t : t.id = selectedFlow[1].transactions[i].id)
                     IN  IF found # <<>> THEN found[1]
                         ELSE selectedFlow[1].transactions[i] ]] >>


\* ------------------------------------------------------- specifications
\* the tree view under every small configuration of config.treeGraph
InitTree == InitApp(ListsUpTo(RawTx, MaxTx), 1..MaxCfgDepth, 1..MaxCfgChildren)

NextTree ==
    \/ \E v \in {"flow", "tree"} : setVisualization(v)
    \/ \E r \in Ranges(MaxAmount, MaxAmount) : handleFilterChange([amountRange |-> r])
    \/ \E a \in AccountIds : handleActiveAccountChange(a)

SpecTree == InitTree /\ [][NextTree]_vars

\* the flow-chart view: the filter pipeline under every edit of the two
\* range filters and every growth of the active-account list
Init == InitApp(ListsUpTo(RawTx, MaxTx), {DefaultMaxDepth}, {DefaultMaxChildrenPerNode})

Next ==
    \/ \E r \in Ranges(1, MaxAmount) : handleFilterChange([amountRange |-> r])
    \/ \E r \in Ranges(MaxAmount, MaxAmount + 1) : handleFilterChange([flowRange |-> r])
    \/ \E a \in AccountIds : onAddActiveAccount(a)

Spec == Init /\ [][Next]_vars

\* the pairwise-flow filter over account ids that contain the "|" of the
\* pair key: "A", "A|B", "B|C", "C"
PipeAccountIds == { <<65>>, <<65, PipeChar, 66>>, <<66, PipeChar, 67>>, <<67>> }

InitPair ==
    InitApp(ListsUpTo(RawTxOf(PipeAccountIds, {1}, {1}), MaxPairTx),
            {DefaultMaxDepth}, {DefaultMaxChildrenPerNode})

NextPair == \E r \in Ranges(1, MaxPairTx) : handleFilterChange([flowRange |-> r])

SpecPair == InitPair /\ [][NextPair]_vars

\* the three views over transfers between two accounts on the days
\* 1..MaxDay or with a date that does not parse
Views == {"flow", "tree", "timeflow"}

InitTime ==
    InitApp(ListsUpTo(RawTxOf({accounts[1], accounts[2]}, Amounts,
                              {InvalidDate} \cup (1..MaxDay)), MaxTx),
            {DefaultMaxDepth}, {DefaultMaxChildrenPerNode})

NextTime ==
    \/ \E v \in Views : setVisualization(v)
    \/ \E r \in Ranges(MaxAmount, MaxAmount) : handleFilterChange([amountRange |-> r])

SpecTime == InitTime /\ [][NextTime]_vars

\* flags: toggles and resets in the views that offer them, band selection,
\* filter edits and re-centring, over transfers of one day
InitFlags ==
    InitApp(ListsUpTo(RawTxOf({accounts[1], accounts[2]}, Amounts, {1}), MaxFlagTx),
            {DefaultMaxDepth}, {DefaultMaxChildrenPerNode})

NextFlags ==
    \/ \E v \in Views : setVisualization(v)
    \/ \E r \in Ranges(MaxAmount, MaxAmount) : handleFilterChange([amountRange |-> r])
    \/ \E a \in AccountIds : handleActiveAccountChange(a)
    \/ \E id \in 1..MaxFlagTx : handleToggleFlag(id)
    \/ onResetFlags
    \/ \E i \in 1..MaxFlagTx : selectFlow(i)
    \/ clearSelectedFlow

SpecFlags == InitFlags /\ [][NextFlags]_vars

\* the time flow over account ids that contain the "-" of the band key:
\* "A", "A-B", "B-C", "C"
DashAccountIds == { <<65>>, <<65, DashChar, 66>>, <<66, DashChar, 67>>, <<67>> }

InitDash ==
    InitApp(ListsUpTo(RawTxOf(DashAccountIds, Amounts, {1}), MaxPairTx),
            {DefaultMaxDepth}, {DefaultMaxChildrenPerNode})

NextDash ==
    \/ \E v \in Views : setVisualization(v)
    \/ \E r \in Ranges(MaxAmount, MaxAmount) : handleFilterChange([amountRange |-> r])

SpecDash == InitDash /\ [][NextDash]_vars

\* the active-account list: accounts added in the flow chart, the tree
\* re-centred on one of its nodes, in any order
InitActive ==
    InitApp(ListsUpTo(RawTxOf(AccountIds, {1}, {1}), MaxFlagTx),
            {DefaultMaxDepth}, {DefaultMaxChildrenPerNode})

NextActive ==
    \/ \E v \in {"flow", "tree"} : setVisualization(v)
    \/ \E a \in AccountIds : onAddActiveAccount(a)
    \/ \E a \in AccountIds : handleActiveAccountChange(a)

SpecActive == InitActive /\ [][NextActive]_vars

\* the table below the flow chart: page clicks, zoom of the chart's x axis,
\* filter edits and added accounts, over stores long enough for two pages
InitPage ==
    InitApp(ListsUpTo([from : {accounts[1]}, to : {accounts[2]}, amount : {1},
                       date : 1..MaxDay], MaxPageTx),
            {DefaultMaxDepth}, {DefaultMaxChildrenPerNode})

NextPage ==
    \/ \E n \in 0..MaxPageTx : handlePageChange(n)
    \/ \E d \in Ranges(1, MaxDay) : setXDomain(d)
    \/ \E r \in Ranges(1, MaxAmount) : handleFilterChange([amountRange |-> r])
    \/ onAddActiveAccount(accounts[2])

SpecPage == InitPage /\ [][NextPage]_vars

\* the tooltip: shows, hides, expiries of hide timers and the pointer
\* entering the tooltip, in any order
InitTooltip ==
    InitApp(ListsUpTo(RawTxOf({accounts[1], accounts[2]}, {1}, {1}), 1),
            {DefaultMaxDepth}, {DefaultMaxChildrenPerNode})

NextTooltip ==
    \/ handleShowTooltip
    \/ handleHideTooltip
    \/ \E id \in 1..MaxTimers : timerExpires(id)
    \/ tooltipMouseEnter

SpecTooltip == InitTooltip /\ [][NextTooltip]_vars

\* totality: stores over an account of the directory and an account that
\* has no directory entry ("Z"), with dates that parse or not; the root is
\* the first account of the directory, which need not occur in the store,
\* or any account the tree shows
UnlistedId == <<90>>

InitTotal ==
    InitApp(ListsUpTo(RawTxOf({accounts[1], UnlistedId}, Amounts, {InvalidDate, 1}), MaxTx),
            {DefaultMaxDepth}, {DefaultMaxChildrenPerNode})

NextTotal ==
    \/ \E v \in Views : setVisualization(v)
    \/ \E r \in Ranges(MaxAmount, MaxAmount) : handleFilterChange([amountRange |-> r])
    \/ \E a \in {accounts[1], UnlistedId} : handleActiveAccountChange(a)

SpecTotal == InitTotal /\ [][NextTotal]_vars

\* ------------------------------------------------- reading a built tree
\* the directional subtrees the synthetic root holds
DirectionalTrees == IF treeData = <<>> THEN <<>> ELSE treeData[1].children

\* every node below (and including) a node, with the account ids on the
\* path from the subtree root down to it
RECURSIVE NodesWithPath(_, _)
NodesWithPath(node, prefix) ==
    { [node |-> node, path |-> Append(prefix, node.id)] }
    \cup UNION { NodesWithPath(node.children[i], Append(prefix, node.id)) :
                   i \in 1..Len(node.children) }

AllNodes == UNION { NodesWithPath(DirectionalTrees[i], <<>>) : i \in 1..Len(DirectionalTrees) }

HasChild(node, id) == \E i \in 1..Len(node.children) : node.children[i].id = id

ChildIds(node) == [ i \in 1..Len(node.children) |-> node.children[i].id ]

\* the counterparties of a node's account in the list the tree was built from
EdgesOf(node) == aggregateEdges(TreeFilteredTx, node.direction, node.id)

RootId == activeAccounts[1]

NoDuplicates(s) == \A i, j \in 1..Len(s) : i # j => s[i] # s[j]

\* --------------------------------------------------------------- claims
\* C1: while a directional subtree is built, an account is rejected as a
\* child of a node only if it already lies on the path from the subtree
\* root to that node: every kept counterparty of a node that is not on the
\* node's path (and is within maxDepth) is a child of the node, also when
\* it occurs in a sibling branch.
OnlyPathAccountsRejected ==
    \A n \in AllNodes :
        Len(n.path) <= maxDepth =>
            \A e \in Range(KeptCounterparties(EdgesOf(n.node), maxChildrenPerNode)) :
                e.id \notin Range(n.path) => HasChild(n.node, e.id)

\* C2: no account id occurs twice on the path from the root of the
\* outgoing or incoming subtree down to any node, hence on no
\* root-to-leaf path, whatever cycles the transfers form.
NoAccountTwiceOnPath == \A n \in AllNodes : NoDuplicates(n.path)

\* C2 happens: the transfers form a cycle A -> B -> C -> A; the third
\* account of a path is within maxDepth, has the first one as a kept
\* counterparty, and the tree stops there.
CycleClosedWitness ==
    \E n \in AllNodes :
        /\ Len(n.path) = 3
        /\ Len(n.path) <= maxDepth
        /\ n.node.children = <<>>
        /\ \E e \in Range(KeptCounterparties(EdgesOf(n.node), maxChildrenPerNode)) :
              e.id = n.path[1]

\* C3: at every node the kept children are the first maxChildrenPerNode
\* counterparties in descending order of aggregate value: the children
\* appear in descending value order, and no dropped counterparty has a
\* larger aggregate value than a kept one.
ChildrenRankedByValue ==
    \A n \in AllNodes :
        LET agg == EdgesOf(n.node)
        IN  /\ \A i, j \in 1..Len(n.node.children) :
                  i < j => n.node.children[i].value >= n.node.children[j].value
            /\ \A i \in 1..Len(n.node.children) :
                  \A j \in (maxChildrenPerNode + 1)..Len(agg) :
                      agg[j].id # n.node.id => agg[j].value <= n.node.children[i].value

\* C4 as stated: the value of the outgoing subtree's root is the sum of
\* the filtered transfers from the root account to a different account,
\* self-transfers of the root not counted (read where the root does send
\* to another account, so that the outgoing subtree exists on any reading).
OutRootValueExcludesSelf ==
    \A i \in 1..Len(DirectionalTrees) :
        (/\ DirectionalTrees[i].direction = "out"
         /\ \E k \in 1..Len(TreeFilteredTx) :
               TreeFilteredTx[k].from = RootId /\ TreeFilteredTx[k].to # RootId)
        => DirectionalTrees[i].value =
               SumAmounts(SelectSeq(TreeFilteredTx,
                                    LAMBDA tx : tx.from = RootId /\ tx.to # RootId))

\* C4 as amended: the value of the outgoing subtree's root is the sum of
\* the amounts of all filtered transfers whose source is the root account,
\* the root's self-transfers included.
OutRootValueIsAllDebits ==
    \A i \in 1..Len(DirectionalTrees) :
        DirectionalTrees[i].direction = "out" =>
            /\ DirectionalTrees[i].id = RootId
            /\ DirectionalTrees[i].value =
                  SumAmounts(SelectSeq(TreeFilteredTx, LAMBDA tx : tx.from = RootId))

\* C4 happens: an outgoing subtree whose root sends to itself and to another
OutRootWithSelfTransferWitness ==
    /\ \E i \in 1..Len(DirectionalTrees) : DirectionalTrees[i].direction = "out"
    /\ \E k \in 1..Len(TreeFilteredTx) :
          TreeFilteredTx[k].from = RootId /\ TreeFilteredTx[k].to = RootId
    /\ \E k \in 1..Len(TreeFilteredTx) :
          TreeFilteredTx[k].from = RootId /\ TreeFilteredTx[k].to # RootId

\* C5: no path of a directional tree from the focus account's node down to
\* a node, hence to a leaf, has more than maxDepth edges.
NoPathLongerThanMaxDepth == \A n \in AllNodes : Len(n.path) - 1 <= maxDepth

\* C5 happens: a node sits maxDepth edges below the focus account and has a
\* counterparty off its path, which only the depth limit keeps out.
DepthCutWitness ==
    \E n \in AllNodes :
        /\ Len(n.path) - 1 = maxDepth
        /\ n.node.children = <<>>
        /\ \E e \in Range(KeptCounterparties(EdgesOf(n.node), maxChildrenPerNode)) :
              e.id \notin Range(n.path)

BetweenInDirection(direction, parent, child) ==
    IF direction = "out"
    THEN SelectSeq(TreeFilteredTx, LAMBDA tx : tx.from = parent /\ tx.to = child)
    ELSE SelectSeq(TreeFilteredTx, LAMBDA tx : tx.from = child /\ tx.to = parent)

\* C7: every non-root node N with tree-parent P stores exactly the
\* filtered transactions between it and P in the direction of the tree
\* (outgoing: from P to N; incoming: from N to P), and its value is the
\* sum of their amounts.
NodesStoreParentTransactions ==
    \A n \in AllNodes :
        Len(n.path) >= 2 =>
            LET between == BetweenInDirection(n.node.direction,
                                              n.path[Len(n.path) - 1], n.node.id)
            IN  /\ n.node.transactions = between
                /\ n.node.value = SumAmounts(between)
                /\ n.node.parentId = n.path[Len(n.path) - 1]

\* C7 happens (Example 1): t1: A->B and t2: B->C of one amount with
\* maxDepth = 2 give the outgoing tree A -> B -> C, B and C carrying that amount.
Example1Witness ==
    \E a \in Amounts :
        /\ maxDepth = 2
        /\ RootId = accounts[1]
        /\ TreeFilteredTx = LoadTransactions(<< [from |-> accounts[1], to |-> accounts[2], amount |-> a, date |-> 1],
                                                [from |-> accounts[2], to |-> accounts[3], amount |-> a, date |-> 1] >>)
        /\ Len(DirectionalTrees) = 1
        /\ LET out == DirectionalTrees[1]
           IN  /\ out.direction = "out" /\ out.id = accounts[1]
               /\ Len(out.children) = 1
               /\ out.children[1].id = accounts[2] /\ out.children[1].value = a
               /\ Len(out.children[1].children) = 1
               /\ out.children[1].children[1].id = accounts[3]
               /\ out.children[1].children[1].value = a
               /\ out.children[1].children[1].children = <<>>

\* C8: when the filtered transactions contain no transfer from the root
\* account to another account the synthetic root has no outgoing child,
\* and when they contain none from another account to the root it has no
\* incoming child.
NoSubtreeWithoutCounterparty ==
    treeData # <<>> =>
        /\ (\A k \in 1..Len(TreeFilteredTx) :
                ~ (TreeFilteredTx[k].from = RootId /\ TreeFilteredTx[k].to # RootId))
           => \A i \in 1..Len(DirectionalTrees) : DirectionalTrees[i].direction # "out"
        /\ (\A k \in 1..Len(TreeFilteredTx) :
                ~ (TreeFilteredTx[k].to = RootId /\ TreeFilteredTx[k].from # RootId))
           => \A i \in 1..Len(DirectionalTrees) : DirectionalTrees[i].direction # "in"

\* the counterparties of a node other than the node's own account
OtherCounterparties(node) ==
    SelectSeq(EdgesOf(node), LAMBDA e : e.id # node.id)

\* C9: self-transactions create no counterparty entry at X's node, so they
\* never become a child of X and never take one of the maxChildrenPerNode
\* slots: the children of a subtree root are its first maxChildrenPerNode
\* counterparties other than itself.
SelfTransactionTakesNoSlot ==
    \A i \in 1..Len(DirectionalTrees) :
        LET others == SliceTo(OtherCounterparties(DirectionalTrees[i]), maxChildrenPerNode)
        IN  ChildIds(DirectionalTrees[i]) = [ k \in 1..Len(others) |-> others[k].id ]

\* the total moved between the two accounts of a transaction, in either
\* direction, over all stored transactions
PairVolume(tx) ==
    SumAmounts(SelectSeq(transactions, LAMBDA t : {t.from, t.to} = {tx.from, tx.to}))

\* the three criteria of the filter pipeline
MeetsCriteria(tx) ==
    /\ filters.amountRange # Undefined =>
           filters.amountRange[1] <= tx.amount /\ tx.amount <= filters.amountRange[2]
    /\ filters.flowRange # Undefined =>
           filters.flowRange[1] <= PairVolume(tx) /\ PairVolume(tx) <= filters.flowRange[2]
    /\ activeAccounts # <<>> =>
           tx.from \in Range(activeAccounts) \/ tx.to \in Range(activeAccounts)

InAmountRange(tx) ==
    filters.amountRange # Undefined =>
        filters.amountRange[1] <= tx.amount /\ tx.amount <= filters.amountRange[2]

InFlowRange(tx) ==
    filters.flowRange # Undefined =>
        filters.flowRange[1] <= PairVolume(tx) /\ PairVolume(tx) <= filters.flowRange[2]

AbsentRangeIsIdentity ==
    /\ filters.amountRange = Undefined =>
           filteredTransactions = SelectSeq(transactions, InFlowRange)
    /\ filters.flowRange = Undefined =>
           filteredTransactions = SelectSeq(transactions, InAmountRange)

\* the flow-range test of the filter callback alone
PassesFlowRange(tx) ==
    ~ (filters.flowRange # Undefined
       /\ (pairFlows(PairKey(tx)) < filters.flowRange[1]
           \/ pairFlows(PairKey(tx)) > filters.flowRange[2]))

\* C12: the pairwise-flow filter is computed per unordered account pair:
\* the volume tested for a transaction is the total of all stored
\* transactions between its two accounts in either direction, and of no
\* others, so a transaction A->B and a transaction B->A pass or fail the
\* flow-range test together.
PairFlowIsPerUnorderedPair ==
    /\ \A i \in 1..Len(transactions) :
           pairFlows(PairKey(transactions[i])) = PairVolume(transactions[i])
    /\ \A i, j \in 1..Len(transactions) :
           (transactions[i].from = transactions[j].to /\ transactions[i].to = transactions[j].from)
           => (PassesFlowRange(transactions[i]) <=> PassesFlowRange(transactions[j]))

\* ------------------------------------------------ reading the time flow
\* the bands and the balance histories TimeFlow has drawn
DrawnFlows == IF timeFlow = <<>> THEN <<>> ELSE timeFlow[1].flows

DrawnBalances == IF timeFlow = <<>> THEN <<>> ELSE timeFlow[1].accountBalances

\* the filtered transactions whose date parses, in the order of the store
ValidDateFiltered == SelectSeq(filteredTransactions, LAMBDA tx : tx.date # InvalidDate)

\* the bands that hold the transaction with this id
BandsHolding(id) ==
    { i \in 1..Len(DrawnFlows) : id \in IdsOf(DrawnFlows[i].transactions) }

CreatedAt(flow) == flow.transactions[1].id

\* C14: the band sequence used for replay is sorted by day ascending, and
\* bands of the same day keep the relative order in which their buckets
\* were first created.
BandsChronologicalStable ==
    \A i, j \in 1..Len(DrawnFlows) :
        i < j =>
            /\ DrawnFlows[i].date <= DrawnFlows[j].date
            /\ DrawnFlows[i].date = DrawnFlows[j].date
               => CreatedAt(DrawnFlows[i]) < CreatedAt(DrawnFlows[j])

\* C14 happens: a band of a later day was created first and is moved
\* behind two bands of one earlier day, which keep their creation order.
SortMovesBandWitness ==
    /\ Len(DrawnFlows) = 3
    /\ DrawnFlows[1].date = DrawnFlows[2].date
    /\ DrawnFlows[2].date < DrawnFlows[3].date
    /\ CreatedAt(DrawnFlows[3]) < CreatedAt(DrawnFlows[1])

\* replay as claimed: the band amount is subtracted from the source's
\* running balance, then added to the destination's, and each of the two
\* samples carries the balance its account has once the band is applied
ClaimedStep(st, flow) ==
    Once([st.balance EXCEPT ![flow.fromAccount] = @ - flow.amount], LAMBDA debited :
    Once([debited EXCEPT ![flow.toAccount] = @ + flow.amount], LAMBDA credited :
         [balance |-> credited,
          history |->
              [a \in DOMAIN st.history |->
                  st.history[a]
                  \o (IF a = flow.fromAccount
                      THEN << [date |-> flow.date, balance |-> credited[a],
                               inflow |-> 0, outflow |-> flow.amount] >>
                      ELSE <<>>)
                  \o (IF a = flow.toAccount
                      THEN << [date |-> flow.date, balance |-> credited[a],
                               inflow |-> flow.amount, outflow |-> 0] >>
                      ELSE <<>>)]]))

RECURSIVE ClaimedReplayFrom(_, _)
ClaimedReplayFrom(flows, st) ==
    IF flows = <<>> THEN st
    ELSE Once(ClaimedStep(st, Head(flows)), LAMBDA next :
              ClaimedReplayFrom(Tail(flows), next))

ClaimedReplay(flows) ==
    ClaimedReplayFrom(flows, [balance |-> [a \in AccountIds |-> 0],
                              history |-> [a \in AccountIds |-> <<>>]])

\* C15: replay starts every account at balance 0 and, for each band in
\* chronological order, subtracts the band amount from the source's
\* running balance, adds it to the destination's, and appends to the
\* source's history the sample (day, resulting balance, inflow 0, outflow
\* amount) and to the destination's the sample (day, resulting balance,
\* inflow amount, outflow 0).
ReplayAsClaimed ==
    \A k \in 1..Len(DrawnBalances) :
        DrawnBalances[k].history = ClaimedReplay(DrawnFlows).history[DrawnBalances[k].id]

\* C15 where no band has one account as source and destination
ReplayAsClaimedWithoutSelfBands ==
    (\A i \in 1..Len(DrawnFlows) : DrawnFlows[i].fromAccount # DrawnFlows[i].toAccount)
    => ReplayAsClaimed

\* Example 3 of C15: bands A->B 50 and B->A 30 of one day (here 2 and 1)
\* leave A at -20 and B at +20 (here -1 and +1)
Example3Reached ==
    /\ Len(DrawnFlows) = 2
    /\ DrawnFlows[1].fromAccount = accounts[1] /\ DrawnFlows[1].toAccount = accounts[2]
    /\ DrawnFlows[2].fromAccount = accounts[2] /\ DrawnFlows[2].toAccount = accounts[1]
    /\ DrawnFlows[1].date = DrawnFlows[2].date
    /\ DrawnFlows[1].amount = 2 /\ DrawnFlows[2].amount = 1
    /\ \E k, l \in 1..Len(DrawnBalances) :
          /\ DrawnBalances[k].id = accounts[1]
          /\ DrawnBalances[k].history[Len(DrawnBalances[k].history)].balance = -1
          /\ DrawnBalances[l].id = accounts[2]
          /\ DrawnBalances[l].history[Len(DrawnBalances[l].history)].balance = 1

\* the flag the store holds now for the transaction with this id
FlaggedNow(id) ==
    \E i \in 1..Len(transactions) : transactions[i].id = id /\ transactions[i].isFlagged

\* the nodes TreeGraph has drawn: those of both subtrees and the root
DrawnNodes == { n.node : n \in AllNodes } \cup Range(treeData)

\* C16: the derived flagged status of any aggregate (tree node, synthetic
\* root, flow band) is true if and only if at least one transaction of
\* the aggregate's stored constituent list has isFlagged = true in the
\* store now; an aggregate with no constituents is never flagged.
FlaggedIffSomeConstituent ==
    /\ \A node \in DrawnNodes :
           TreeFlagged(node) <=> \E id \in IdsOf(node.transactions) : FlaggedNow(id)
    /\ \A i \in 1..Len(DrawnFlows) :
           DrawnFlows[i].isFlagged <=>
               \E id \in IdsOf(DrawnFlows[i].transactions) : FlaggedNow(id)

\* C16 happens: the tree shows a flagged node of two constituents of
\* which one is flagged and one is not, and a root without constituents
\* or a node none of whose constituents is flagged.
FlaggedNodeWitness ==
    /\ \E node \in DrawnNodes :
          /\ TreeFlagged(node)
          /\ \E i, j \in 1..Len(node.transactions) :
                node.transactions[i].isFlagged /\ ~ node.transactions[j].isFlagged
    /\ \E node \in DrawnNodes : ~ TreeFlagged(node)

\* a step that toggles the flag of exactly the transaction with this id
\* while the time flow stays on screen
TogglesInTimeFlow(id) ==
    /\ transactions' = ToggleFlag(transactions, id)
    /\ transactions' # transactions
    /\ visualization = "timeflow"
    /\ visualization' = "timeflow"

\* the flagged boolean a drawn node has once the flag of id is toggled and
\* the tree is built again: the builder never reads isFlagged, so the node
\* stores the same transactions, the one with this id toggled
TreeFlaggedAfterToggle(node, id) == SomeFlagged(ToggleFlag(node.transactions, id))

\* a constituent other than id is flagged
OtherFlagged(txs, id) == \E i \in 1..Len(txs) : txs[i].id # id /\ txs[i].isFlagged

\* C17 as stated: toggling exactly one transaction's flag changes the
\* derived flagged boolean of every aggregate (tree node or band) that
\* contains that transaction, and of no aggregate that does not.
ToggleChangesEveryContaining ==
    /\ [](\A node \in DrawnNodes : \A id \in IdsOf(transactions) :
             (TreeFlaggedAfterToggle(node, id) # TreeFlagged(node))
             <=> id \in IdsOf(node.transactions))
    /\ [][\A id \in IdsOf(transactions) :
             TogglesInTimeFlow(id) =>
                 \A i \in 1..Len(DrawnFlows) :
                     (DrawnFlows'[i].isFlagged # DrawnFlows[i].isFlagged)
                     <=> id \in IdsOf(DrawnFlows[i].transactions)]_vars

\* C17 as amended: toggling exactly one transaction's flag changes the
\* derived flagged boolean of exactly those aggregates (tree nodes or
\* bands) that contain it and have no other flagged constituent; an
\* aggregate that contains it next to another flagged transaction stays
\* flagged, and no aggregate that does not contain it changes.
ToggleChangesContainingUnlessOtherFlagged ==
    /\ [](\A node \in DrawnNodes : \A id \in IdsOf(transactions) :
             (TreeFlaggedAfterToggle(node, id) # TreeFlagged(node))
             <=> (/\ id \in IdsOf(node.transactions)
                  /\ ~ OtherFlagged(node.transactions, id)))
    /\ [][\A id \in IdsOf(transactions) :
             TogglesInTimeFlow(id) =>
                 /\ Len(DrawnFlows') = Len(DrawnFlows)
                 /\ \A i \in 1..Len(DrawnFlows) :
                        /\ IdsOf(DrawnFlows'[i].transactions) = IdsOf(DrawnFlows[i].transactions)
                        /\ (DrawnFlows'[i].isFlagged # DrawnFlows[i].isFlagged)
                           <=> (/\ id \in IdsOf(DrawnFlows[i].transactions)
                                /\ ~ OtherFlagged(DrawnFlows[i].transactions, id))]_vars

\* C17 happens: in the time flow a band of two constituents is selected,
\* one of them is flagged and the other is not, so that a toggle of either
\* is on offer: one keeps the band flagged, the other clears it.
ToggleInSharedBandWitness ==
    /\ visualization = "timeflow"
    /\ selectedFlow # <<>>
    /\ \E i \in 1..Len(DrawnFlows) :
          /\ IdsOf(DrawnFlows[i].transactions) = IdsOf(selectedFlow[1].transactions)
          /\ Len(DrawnFlows[i].transactions) = 2
          /\ DrawnFlows[i].isFlagged
          /\ \E k, l \in 1..2 : /\ DrawnFlows[i].transactions[k].isFlagged
                                /\ ~ DrawnFlows[i].transactions[l].isFlagged

\* one list is the other with isFlagged of the transaction with this id
\* inverted: same length, same order, every other transaction and every
\* other field as before
IsToggleOf(after, before, id) ==
    /\ Len(after) = Len(before)
    /\ \A i \in 1..Len(before) :
           /\ after[i].id = before[i].id /\ after[i].date = before[i].date
           /\ after[i].from = before[i].from /\ after[i].to = before[i].to
           /\ after[i].amount = before[i].amount
           /\ after[i].parsedDate = before[i].parsedDate
           /\ after[i].isFlagged = (IF before[i].id = id THEN ~ before[i].isFlagged
                                    ELSE before[i].isFlagged)

\* one list is the other with every isFlagged false and nothing else changed
IsResetOf(after, before) ==
    /\ Len(after) = Len(before)
    /\ \A i \in 1..Len(before) :
           /\ after[i].id = before[i].id /\ after[i].date = before[i].date
           /\ after[i].from = before[i].from /\ after[i].to = before[i].to
           /\ after[i].amount = before[i].amount
           /\ after[i].parsedDate = before[i].parsedDate
           /\ ~ after[i].isFlagged

\* the toggle updater by id: it inverts exactly the transaction with the
\* id, changes nothing for an id that matches no transaction, and two
\* updaters queued back-to-back are both applied
ToggleUpdaterByIdOnly ==
    /\ \A id \in 1..(MaxFlagTx + 1) :
           /\ IsToggleOf(ToggleFlag(transactions, id), transactions, id)
           /\ id \notin IdsOf(transactions) => ToggleFlag(transactions, id) = transactions
    /\ \A id1, id2 \in IdsOf(transactions) :
           IsToggleOf(ToggleFlag(ToggleFlag(transactions, id1), id2),
                      ToggleFlag(transactions, id1), id2)

DrawnEqualsRecomputed ==
    /\ treeData = TreeEffect
    /\ timeFlow = TimeFlowEffect

\* the band of the detail panel is one of the bands computed from the
\* current store and filters, with its amount and its constituents
PanelBandIsCurrent ==
    SelectedFlowPanel # <<>> =>
        \E i \in 1..Len(DrawnFlows) :
            /\ DrawnFlows[i].fromAccount = SelectedFlowPanel[1].fromAccount
            /\ DrawnFlows[i].toAccount = SelectedFlowPanel[1].toAccount
            /\ DrawnFlows[i].date = SelectedFlowPanel[1].date
            /\ DrawnFlows[i].amount = SelectedFlowPanel[1].amount
            /\ DrawnFlows[i].transactions = SelectedFlowPanel[1].transactions

\* C19: after any sequence of filter edits, root changes and flag toggles
\* everything exposed to rendering equals its recomputation from the
\* current store, filters and root: no node, band, constituent list or
\* flagged boolean of an earlier input state survives.
NothingStaleRendered ==
    /\ DrawnEqualsRecomputed
    /\ PanelBandIsCurrent

\* the band on show in the detail panel was selected before the amount
\* filter was edited and is still shown with both its constituents
StalePanelReached ==
    /\ visualization = "timeflow"
    /\ SelectedFlowPanel # <<>>
    /\ Len(SelectedFlowPanel[1].transactions) = 2
    /\ Len(DrawnFlows) = 1
    /\ Len(DrawnFlows[1].transactions) = 1

\* the filtered transactions inside the amount bounds handed to the views,
\* whatever their date
InAmountBounds ==
    SelectSeq(filteredTransactions,
              LAMBDA tx : PropMinAmount <= tx.amount /\ tx.amount <= PropMaxAmount)

\* a list with every date replaced by one that parses
Redated(txs) ==
    [ i \in 1..Len(txs) |-> [txs[i] EXCEPT !.date = 1, !.parsedDate = <<1>>] ]

\* a forest with the dates of all constituents replaced likewise
RECURSIVE RedatedNodes(_)
RedatedNodes(nodes) ==
    [ i \in 1..Len(nodes) |->
        [nodes[i] EXCEPT !.transactions = Redated(@), !.children = RedatedNodes(@)] ]

\* C20: a transaction whose date fails to parse is in no band and in no
\* balance sample (bands and balances are those of the list without it),
\* yet it remains in the filtered list and contributes to tree node values
\* and constituent lists exactly like a transaction with a valid date (the
\* tree is the one the same list gives when every date parses).
UnparsedDateOnlyOutOfTimeFlow ==
    /\ \A i \in 1..Len(DrawnFlows) :
           \A k \in 1..Len(DrawnFlows[i].transactions) :
               DrawnFlows[i].transactions[k].date # InvalidDate
    /\ visualization = "timeflow" =>
           timeFlow = << DrawTimeFlow(SelectSeq(InAmountBounds,
                                                LAMBDA tx : tx.date # InvalidDate)) >>
    /\ \A i \in 1..Len(transactions) :
           (InAmountRange(transactions[i]) /\ InFlowRange(transactions[i])) =>
               \E k \in 1..Len(filteredTransactions) :
                   filteredTransactions[k] = transactions[i]
    /\ visualization = "tree" =>
           RedatedNodes(treeData) =
               << Once(Redated(InAmountBounds),
                       LAMBDA txs : buildFullTree(txs, activeAccounts[1])) >>

\* C20 happens: the tree shows a node below the root whose constituents
\* are a transaction with an unparsable date and one with a valid date,
\* and whose value is the sum of both
UnparsedDateInNodeWitness ==
    /\ visualization = "tree"
    /\ \E i \in 1..Len(DirectionalTrees) :
         \E c \in 1..Len(DirectionalTrees[i].children) :
            LET node == DirectionalTrees[i].children[c]
            IN  /\ \E k \in 1..Len(node.transactions) :
                       node.transactions[k].date = InvalidDate
                /\ \E k \in 1..Len(node.transactions) :
                       node.transactions[k].date # InvalidDate
                /\ node.value = SumAmounts(node.transactions)

\* the time flow is drawn from a filtered list that holds a transaction
\* with an unparsable date, which is in none of the bands drawn
UnparsedDateBesideBandsReached ==
    /\ visualization = "timeflow"
    /\ Len(DrawnFlows) > 0
    /\ \E k \in 1..Len(InAmountBounds) : InAmountBounds[k].date = InvalidDate

\* the accounts that have a lane in the drawn time flow
LaneIds == { DrawnBalances[k].id : k \in 1..Len(DrawnBalances) }

\* the accounts that are source or destination of this list's transactions
EndpointsOf(txs) ==
    { txs[i].from : i \in 1..Len(txs) } \cup { txs[i].to : i \in 1..Len(txs) }

SecondReplay ==
    ReplayFrom(DrawnFlows, [currentBalances |-> [a \in LaneIds |-> 0],
                            accountBalances |-> [a \in LaneIds |-> <<>>]])

IsNode(node) ==
    /\ DOMAIN node = {"id", "direction", "value", "parentId", "transactions", "children"}
    /\ node.direction \in {"in", "out"}
    /\ node.value = SumAmounts(node.transactions)
    /\ Len(node.children) <= maxChildrenPerNode

\* the synthetic root the builder returns for a list and a root id
IsFullTree(tree, root) ==
    /\ tree.id = root /\ tree.direction = "root" /\ tree.value = 0
    /\ Len(tree.children) <= 2
    /\ \A i \in 1..Len(tree.children) : tree.children[i].id = root

\* C23: the tree builder and the temporal aggregation are total: for the
\* empty list, for lists with cycles and self-transfers, for a root that
\* has no directory entry or occurs in no transaction, they return a
\* structure, degenerate where there is nothing to show (a root without
\* subtrees and constituents, a time flow without bands and lanes), and an
\* account id missing from the directory is shown by the id itself.
BuildersAreTotal ==
    /\ \A root \in AccountIds \cup {UnlistedId} :
           LET tree == buildFullTree(TreeFilteredTx, root)
           IN  /\ IsFullTree(tree, root)
               /\ root \notin EndpointsOf(TreeFilteredTx) =>
                      tree.children = <<>> /\ tree.transactions = <<>>
    /\ visualization = "tree" =>
           /\ Len(treeData) = 1 /\ IsFullTree(treeData[1], RootId)
           /\ \A n \in AllNodes : IsNode(n.node)
    /\ visualization = "timeflow" =>
           /\ Len(timeFlow) = 1
           /\ DOMAIN timeFlow[1] = {"flows", "accountBalances"}
           /\ ValidDateFiltered = <<>> => DrawnFlows = <<>> /\ DrawnBalances = <<>>
    /\ \A id \in {n.id : n \in DrawnNodes} \cup LaneIds :
           NodeName(id) = IF id \in AccountIds THEN DirectoryName(id) ELSE id

\* C23 happens: the tree is built for a root that has no directory entry
\* and occurs in no filtered transaction of a store that is not empty
UnlistedIdleRootWitness ==
    /\ visualization = "tree"
    /\ RootId = UnlistedId
    /\ transactions # <<>>
    /\ treeData[1].children = <<>>
    /\ NodeName(treeData[1].id) = UnlistedId

\* totality on a cycle: the tree of a store A -> Z, Z -> A, Z -> Z
CyclicStoreTreeReached ==
    /\ visualization = "tree"
    /\ \E i, j, k \in 1..Len(TreeFilteredTx) :
          /\ TreeFilteredTx[i].from = accounts[1] /\ TreeFilteredTx[i].to = UnlistedId
          /\ TreeFilteredTx[j].from = UnlistedId /\ TreeFilteredTx[j].to = accounts[1]
          /\ TreeFilteredTx[k].from = UnlistedId /\ TreeFilteredTx[k].to = UnlistedId
    /\ Len(treeData[1].children) = 2

\* 1 + f + f^2 + ... + f^d: the most calls that return a node when every
\* node of depth below d has f children
RECURSIVE GeometricSum(_, _)
GeometricSum(f, d) == IF d = 0 THEN 1 ELSE 1 + f * GeometricSum(f, d - 1)

\* C24: building a directional tree is a bounded pass for every finite
\* transaction set, cycles and self-transfers included: a branch stops at
\* a node that lies maxDepth edges below the subtree root and at a node
\* without qualifying counterparty, so a subtree has at most
\* 1 + f + ... + f^maxDepth nodes, f being maxChildrenPerNode.
BuildIsBoundedPass ==
    \A i \in 1..Len(DirectionalTrees) :
        LET nodes == NodesWithPath(DirectionalTrees[i], <<>>)
        IN  /\ Cardinality(nodes) <= GeometricSum(maxChildrenPerNode, maxDepth)
            /\ \A n \in nodes :
                   (Len(n.path) - 1 >= maxDepth \/ EdgesOf(n.node) = <<>>)
                       => n.node.children = <<>>

\* C24 happens: the store holds a cycle A -> B -> A and a self-transfer,
\* and the branch A -> B of the tree stops at B, at the depth limit, though
\* B has a qualifying counterparty
CycleCutWitness ==
    /\ visualization = "tree"
    /\ \E i, j, k \in 1..Len(TreeFilteredTx) :
          /\ TreeFilteredTx[i].from = RootId /\ TreeFilteredTx[i].to # RootId
          /\ TreeFilteredTx[j].from = TreeFilteredTx[i].to /\ TreeFilteredTx[j].to = RootId
          /\ TreeFilteredTx[k].from = TreeFilteredTx[k].to
    /\ \E n \in AllNodes :
          /\ Len(n.path) - 1 = maxDepth
          /\ EdgesOf(n.node) # <<>>
          /\ n.node.children = <<>>

\* the sum of the running balances of a set of accounts
RECURSIVE SumOfBalances(_, _)
SumOfBalances(balances, ids) ==
    IF ids = {} THEN 0
    ELSE LET a == CHOOSE x \in ids : TRUE
         IN  balances[a] + SumOfBalances(balances, ids \ {a})

\* the running balances after the first n drawn bands are applied
BalancesAfter(n) ==
    ReplayFrom(SubSeq(DrawnFlows, 1, n),
               [currentBalances |-> [a \in LaneIds |-> 0],
                accountBalances |-> [a \in LaneIds |-> <<>>]]).currentBalances

\* C25: replay conserves money: after every band is applied the running
\* balances of all accounts sum to 0, also for a band whose source and
\* destination are one account, which leaves that account's running
\* balance unchanged.
ReplayConservesMoney ==
    \A n \in 1..Len(DrawnFlows) :
        /\ SumOfBalances(BalancesAfter(n), LaneIds) = 0
        /\ DrawnFlows[n].fromAccount = DrawnFlows[n].toAccount =>
               BalancesAfter(n)[DrawnFlows[n].fromAccount]
                   = BalancesAfter(n - 1)[DrawnFlows[n].fromAccount]

\* C25 where no band has one account as source and destination
ReplayConservesWithoutSelfBands ==
    (\A i \in 1..Len(DrawnFlows) : DrawnFlows[i].fromAccount # DrawnFlows[i].toAccount)
    => ReplayConservesMoney

\* C26: the subtree the tree view lays out and labels as outgoing always
\* has direction tag out and the one laid out as incoming always has
\* direction tag in, whichever subtrees exist; a subtree that was built is
\* shown on the side of its tag, so the incoming subtree of a root that
\* only receives money is on the incoming side.
SidesMatchDirectionTags ==
    /\ \A i \in 1..Len(outgoingSide) : outgoingSide[i].direction = "out"
    /\ \A i \in 1..Len(incomingSide) : incomingSide[i].direction = "in"
    /\ \A i \in 1..Len(DirectionalTrees) :
           /\ DirectionalTrees[i].direction = "out" => outgoingSide = << DirectionalTrees[i] >>
           /\ DirectionalTrees[i].direction = "in" => incomingSide = << DirectionalTrees[i] >>

\* C26 where the root sends money to another account
SidesMatchWhenRootSends ==
    (\E i \in 1..Len(DirectionalTrees) : DirectionalTrees[i].direction = "out")
    => SidesMatchDirectionTags

\* both subtrees exist and each is on its side
BothSidesReached ==
    /\ Len(outgoingSide) = 1 /\ outgoingSide[1].direction = "out"
    /\ Len(incomingSide) = 1 /\ incomingSide[1].direction = "in"

\* C27: all constituent transactions of a band have the band's source
\* account, destination account and calendar day: transactions that differ
\* in source or in destination are never merged into one band, whatever
\* the account ids, "-" inside them included.
BandConstituentsShareEnds ==
    \A i \in 1..Len(DrawnFlows) :
        \A k \in 1..Len(DrawnFlows[i].transactions) :
            /\ DrawnFlows[i].transactions[k].from = DrawnFlows[i].fromAccount
            /\ DrawnFlows[i].transactions[k].to = DrawnFlows[i].toAccount
            /\ DrawnFlows[i].transactions[k].date = DrawnFlows[i].date

\* C27 where no account id of the store contains "-"
BandConstituentsShareEndsWithoutDash ==
    (\A a \in EndpointsOf(transactions) : DashChar \notin Range(a))
    => BandConstituentsShareEnds

\* C28: after any sequence of add-active-account and re-centre actions the
\* active-account list is non-empty and holds no id twice; adding an
\* account appends it and never changes the first entry (the tree root),
\* and re-centring on X makes the list exactly [X].
ActiveAccountsWellFormed ==
    /\ [](activeAccounts # <<>> /\ NoDuplicates(activeAccounts))
    /\ [][activeAccounts' # activeAccounts =>
             \/ /\ visualization = "tree"
                /\ \E x \in NodeIds(treeData) : activeAccounts' = << x >>
             \/ /\ visualization = "flow"
                /\ activeAccounts'[1] = activeAccounts[1]
                /\ \E x \in AccountIds \ Range(activeAccounts) :
                       activeAccounts' = Append(activeAccounts, x)]_vars

\* C28 happens: the tree was re-centred on another account than the first
\* of the directory, and two accounts were added to the list after that
AddedAfterRecentreWitness ==
    /\ activeAccounts[1] # accounts[1]
    /\ Len(activeAccounts) = 3

\* C29: after any sequence of filter edits, page clicks, zoom changes and
\* active-account changes the current table page satisfies
\* 1 <= page <= max(1, totalPages), totalPages being
\* ceil(visibleTransactions / 10); every filter edit resets page to 1.
PageWithinTotalPages ==
    /\ [](1 <= page /\ page <= Max2(1, totalPages))
    /\ [][filters' # filters => page' = 1]_vars

\* C29 without the upper bound
PageAtLeastOneAndReset ==
    /\ [](1 <= page)
    /\ [][filters' # filters => page' = 1]_vars

\* the table is on its second page
SecondPageReached == page = 2 /\ totalPages = 2

\* the hide timers that have neither fired nor been cancelled
PendingTimers == { id \in 1..Len(timers) : timers[id] = "pending" }

\* C30: for any interleaving of show calls, hide calls and expiries of
\* hide timers, a show cancels every pending hide: while no hide has been
\* issued since the last show no hide timer is pending, and the tooltip is
\* hidden only by the expiry of a hide issued after the last show.
ShowCancelsEveryPendingHide ==
    /\ [](tooltipTimeoutRef = NoTimer => PendingTimers = {})
    /\ [][(tooltip.visible /\ ~ tooltip'.visible) => tooltipTimeoutRef # NoTimer]_vars

\* a show cancels the hide that was issued last
ShowCancelsLatestHide ==
    [][(tooltipTimeoutRef # NoTimer /\ tooltipTimeoutRef' = NoTimer)
          => tooltipTimeoutRef \notin { id \in 1..Len(timers') : timers'[id] = "pending" }]_vars

\* a show has cancelled a hide and the tooltip is on screen
HideCancelledReached ==
    /\ tooltip.visible
    /\ tooltipTimeoutRef = NoTimer
    /\ \E id \in 1..Len(timers) : timers[id] = "cleared"

====
